---------------------------- MODULE Spec2Model ----------------------------
(***************************************************************************)
(* Teamly API (GFPC/gfp_tasker_v0): the JSON record store of storage.py    *)
(* and the request handlers of main.py.                                    *)
(*                                                                         *)
(* The three files users.json, projects.json and tasks.json are the state. *)
(* A file is [ok, data]: ok says whether its text parses as JSON, data is  *)
(* the list of records it holds.  The handlers are `async def` functions   *)
(* without any await and with blocking file I/O, so one request is one     *)
(* atomic step.  A handler is an operator from its inputs and the files   *)
(* to its result: the response and the file it may have written.  A       *)
(* response is [code, detail, body]: the HTTP status, the detail of the    *)
(* HTTPException (or the name of an unhandled exception, which the server  *)
(* answers with 500), and the returned records.  The variable last keeps   *)
(* the handler, status and detail of the latest request.                   *)
(***************************************************************************)
EXTENDS Integers, Sequences, FiniteSets, TLC

VARIABLES users_file, projects_file, tasks_file, last,
          calls, ncalls, file_empty

vars == <<users_file, projects_file, tasks_file, last,
          calls, ncalls, file_empty>>

---------------------------------------------------------------------------
(* Bounds and input domains *)

\* at most MaxUsers users register, with the emails e1..eMaxUsers
MaxUsers == 2

\* at most MaxCalls calls are made on the store by its direct callers
MaxCalls == 2

\* the callers of one JSONStorage directory: two server workers
Clients == {"w1", "w2"}

Emails == 1..MaxUsers
Names == {"n"}
Passwords == {"pw1"}

\* request bodies of ProjectCreate and TaskCreate (name/title, description)
ProjectInputs == { [name |-> "p1", description |-> "null"],
                   [name |-> "p2", description |-> "d"] }
TaskInputs == { [title |-> "t2", description |-> "d"] }

\* the status query parameter: the three valid values and one other
StatusInputs == {"todo", "in_progress", "done", "archived"}

---------------------------------------------------------------------------
(* Values *)

\* datetime.utcnow().strftime(...) is a str, datetime.utcnow() a datetime
StrTime(t) == [type |-> "str", value |-> t]
DateTime(t) == [type |-> "datetime", value |-> t]

\* auth.get_password_hash: a one-way transform of the password
get_password_hash(password) == <<"hash", password>>

\* auth.verify_password: the hash of the plain password is the stored one
verify_password(plain_password, hashed_password) ==
    get_password_hash(plain_password) = hashed_password

\* auth.create_access_token: a signed token carrying the claims in `data`
create_access_token(data) == [type |-> "jwt", sub |-> data.sub]

\* {**a, **b}: the keys of both, b's values winning
Merge(a, b) ==
    [k \in (DOMAIN a) \cup (DOMAIN b) |-> IF k \in DOMAIN b THEN b[k] ELSE a[k]]

\* d[key] = value on a dict
SetKey(d, key, value) ==
    [k \in (DOMAIN d) \cup {key} |-> IF k = key THEN value ELSE d[k]]

\* the records of a list with the given id, and next(..., None) over them
Matching(data, id) == { i \in 1..Len(data) : data[i].id = id }
FirstIndex(data, id) ==
    CHOOSE i \in Matching(data, id) : \A j \in Matching(data, id) : i <= j

Ids(data) == { data[i].id : i \in 1..Len(data) }

\* uuid.uuid4(): an id no record of the collection has
uuid4(data) ==
    IF data = <<>> THEN 1
    ELSE 1 + (CHOOSE m \in Ids(data) : \A n \in Ids(data) : n <= m)

\* list membership, `x in list`
InList(x, list) == \E i \in 1..Len(list) : list[i] = x

---------------------------------------------------------------------------
(* storage.py *)

\* json.dump raises TypeError on a datetime value
Serializable(record) == record.created_at.type # "datetime"

\* _read_file: json.load raises JSONDecodeError on unparseable text
Readable(file) == file.ok

\* _write_file: open(path, "w") truncates the file, json.dump writes it
\* chunk by chunk and raises at the first value it cannot serialize,
\* leaving text that is not JSON
WriteOk(data) == \A i \in 1..Len(data) : Serializable(data[i])
_write_file(data) ==
    IF WriteOk(data) THEN [ok |-> TRUE, data |-> data]
    ELSE [ok |-> FALSE, data |-> <<>>]

\* save_user / save_project / save_task on a readable file
save_record(file, record) == _write_file(Append(file.data, record))

\* the id comparison left out: every record takes the new data
UpdatedList_EveryRecord(data, id, record_data) ==
    [i \in 1..Len(data) |-> Merge(data[i], record_data)]
\* a record of an unknown id added instead
UpdatedList_Upsert(data, id, record_data) ==
    IF Matching(data, id) = {} THEN Append(data, record_data)
    ELSE [data EXCEPT ![FirstIndex(data, id)] = Merge(@, record_data)]
\* update_user / update_project / update_task on a readable file
UpdatedList(data, id, record_data) ==
    IF Matching(data, id) = {} THEN data
    ELSE [data EXCEPT ![FirstIndex(data, id)] = Merge(@, record_data)]
update_record(file, id, record_data) ==
    _write_file(UpdatedList(file.data, id, record_data))

---------------------------------------------------------------------------
(* The data directory at construction: JSONStorage.__init__ creates a     *)
(* file holding [] only where none exists, so the store starts either     *)
(* empty or with the records an earlier run left.                         *)

File(data) == [ok |-> TRUE, data |-> data]

SeedUser(id, email) ==
    [id |-> id, email |-> email, name |-> "n",
     created_at |-> StrTime("earlier"),
     hashed_password |-> get_password_hash("pw1")]
SeedProject(id, owner, members) ==
    [id |-> id, name |-> "p1", description |-> "null", owner_id |-> owner,
     created_at |-> StrTime("earlier"), members |-> members]
SeedTask(id, project) ==
    [id |-> id, title |-> "t1", description |-> "null", project_id |-> project,
     created_at |-> StrTime("earlier"), status |-> "todo"]

\* a caller of the store that is in no call
Idle == [pc |-> "idle", op |-> "none", id |-> 0, data |-> [none |-> "none"],
         read |-> <<>>, copy |-> <<>>, result |-> "none"]

DataDirTasks == <<SeedTask(1, 1), SeedTask(2, 2)>>

DataDirs ==
    { [users |-> <<>>, projects |-> <<>>, tasks |-> <<>>],
      [users |-> <<SeedUser(1, 1), SeedUser(2, 2)>>,
       projects |-> <<SeedProject(1, 1, <<1>>), SeedProject(2, 2, <<2, 1>>)>>,
       tasks |-> DataDirTasks] }

Init ==
    \E dir \in DataDirs :
        /\ users_file = File(dir.users)
        /\ projects_file = File(dir.projects)
        /\ tasks_file = File(dir.tasks)
        /\ last = [op |-> "none", code |-> 0, detail |-> "none"]
        /\ calls = [c \in Clients |-> Idle]
        /\ ncalls = 0
        /\ file_empty = FALSE

---------------------------------------------------------------------------
(* Responses *)

Ok(body) == [code |-> 200, detail |-> "ok", body |-> body]
HTTPException(code, detail) == [code |-> code, detail |-> detail, body |-> <<>>]
\* an exception no handler catches
Unhandled(exception) == [code |-> 500, detail |-> exception, body |-> <<>>]

\* what a handler that wrote `file` returns: json.dump raised, or the body
Written(file, body) == IF file.ok THEN Ok(body) ELSE Unhandled("TypeError")

\* Depends(get_current_active_user): the user record the token resolves to
CurrentUsers == { users_file.data[i] : i \in 1..Len(users_file.data) }
UserIds == Ids(users_file.data)

\* the ids a request can name: those of the records and one of no record
UserIdInputs == Ids(users_file.data) \cup {uuid4(users_file.data)}
ProjectIdInputs == Ids(projects_file.data) \cup {uuid4(projects_file.data)}
TaskIdInputs == Ids(tasks_file.data) \cup {uuid4(tasks_file.data)}

\* next((r for r in records if r["id"] == id), None)
Found(data, id) == Matching(data, id) # {}
Lookup(data, id) == data[FirstIndex(data, id)]

---------------------------------------------------------------------------
(* main.py: register *)

\* the duplicate check left out
EmailRegistered_Skipped(users, email) == FALSE
EmailRegistered(users, email) == \E i \in 1..Len(users) : users[i].email = email

register(email, name, password) ==
    IF EmailRegistered(users_file.data, email)
    THEN [response |-> HTTPException(400, "Email already registered"),
          users_file |-> users_file]
    ELSE LET user_dict ==
                 [id |-> uuid4(users_file.data), email |-> email,
                  name |-> name, created_at |-> StrTime("now"),
                  hashed_password |-> get_password_hash(password)]
             written == save_record(users_file, user_dict)
         IN [response |-> Written(written,
                 <<[k \in (DOMAIN user_dict) \ {"hashed_password"}
                     |-> user_dict[k]]>>),
             users_file |-> written]

---------------------------------------------------------------------------
(* main.py: projects *)

create_project(current_user, project) ==
    LET project_dict ==
            [id |-> uuid4(projects_file.data), name |-> project.name,
             description |-> project.description,
             owner_id |-> current_user.id,
             created_at |-> DateTime("now"),
             members |-> <<current_user.id>>]
        written == save_record(projects_file, project_dict)
    IN IF ~Readable(projects_file)
       THEN [response |-> Unhandled("JSONDecodeError"),
             projects_file |-> projects_file]
       ELSE [response |-> Written(written, <<project_dict>>),
             projects_file |-> written]

\* the filter left out
VisibleProjects_All(projects, user_id) == projects
\* [Project(**p) for p in projects if current_user.id in p["members"]]
VisibleProjects(projects, user_id) ==
    SelectSeq(projects, LAMBDA p : InList(user_id, p.members))

get_projects(current_user) ==
    IF ~Readable(projects_file)
    THEN [response |-> Unhandled("JSONDecodeError")]
    ELSE [response |-> Ok(VisibleProjects(projects_file.data, current_user.id))]

\* the project rebuilt from the request body, whose members default to []
UpdatedProject_FromBody(project, project_data) ==
    Merge(project, [name |-> project_data.name,
                    description |-> project_data.description,
                    members |-> <<>>])
\* {**project, "name": ..., "description": ...}
UpdatedProject(project, project_data) ==
    Merge(project, [name |-> project_data.name,
                    description |-> project_data.description])

\* membership taken for ownership
IsOwner_AnyMember(project, user_id) == InList(user_id, project.members)
IsOwner(project, user_id) == project.owner_id = user_id

update_project(current_user, project_id, project_data) ==
    IF ~Readable(projects_file)
    THEN [response |-> Unhandled("JSONDecodeError"),
          projects_file |-> projects_file]
    ELSE IF ~Found(projects_file.data, project_id)
    THEN [response |-> HTTPException(404, "Project not found"),
          projects_file |-> projects_file]
    ELSE IF ~IsOwner(Lookup(projects_file.data, project_id), current_user.id)
    THEN [response |-> HTTPException(403,
                           "Only project owner can edit the project"),
          projects_file |-> projects_file]
    ELSE LET updated_project ==
                 UpdatedProject(Lookup(projects_file.data, project_id),
                                project_data)
             written == update_record(projects_file, project_id, updated_project)
         IN [response |-> Written(written, <<updated_project>>),
             projects_file |-> written]

---------------------------------------------------------------------------
(* main.py: tasks *)

\* the membership test left out
NoAccess_ExistenceOnly(projects, project_id, user_id) ==
    ~Found(projects, project_id)
\* `not project or current_user.id not in project["members"]`
NoAccess(projects, project_id, user_id) ==
    \/ ~Found(projects, project_id)
    \/ ~InList(user_id, Lookup(projects, project_id).members)

create_task(current_user, task) ==
    LET task_dict ==
            [id |-> uuid4(tasks_file.data), title |-> task.title,
             description |-> task.description, project_id |-> task.project_id,
             created_at |-> DateTime("now"), status |-> "todo"]
        written == save_record(tasks_file, task_dict)
    IN IF ~Readable(projects_file)
       THEN [response |-> Unhandled("JSONDecodeError"), tasks_file |-> tasks_file]
       ELSE IF NoAccess(projects_file.data, task.project_id, current_user.id)
       THEN [response |-> HTTPException(404, "Project not found or access denied"),
             tasks_file |-> tasks_file]
       ELSE IF ~Readable(tasks_file)
       THEN [response |-> Unhandled("JSONDecodeError"), tasks_file |-> tasks_file]
       ELSE [response |-> Written(written, <<task_dict>>), tasks_file |-> written]

\* [Task(**t) for t in tasks if t["project_id"] in user_projects]
VisibleTasks(projects, tasks, user_id) ==
    LET user_projects == Ids(VisibleProjects(projects, user_id))
    IN SelectSeq(tasks, LAMBDA t : t.project_id \in user_projects)

get_tasks(current_user) ==
    IF ~Readable(projects_file) \/ ~Readable(tasks_file)
    THEN [response |-> Unhandled("JSONDecodeError")]
    ELSE [response |-> Ok(VisibleTasks(projects_file.data, tasks_file.data,
                                       current_user.id))]

\* The first two steps of assign_task, update_task_status and update_task:
\* the task by id, then the caller's membership of its project.  "ok" when
\* the handler goes on, else the failure.
TaskAccess(task_id, user_id) ==
    IF ~Readable(tasks_file) THEN "JSONDecodeError"
    ELSE IF ~Found(tasks_file.data, task_id) THEN "not found"
    ELSE IF ~Readable(projects_file) THEN "JSONDecodeError"
    ELSE IF NoAccess(projects_file.data,
                     Lookup(tasks_file.data, task_id).project_id, user_id)
         THEN "access denied"
    ELSE "ok"

\* storage.update_task(task_id, task) and `return Task(**task)`
StoreTask(task_id, task) ==
    LET written == update_record(tasks_file, task_id, task)
    IN [response |-> Written(written, <<task>>), tasks_file |-> written]

Failed(response) == [response |-> response, tasks_file |-> tasks_file]

\* the assignee's membership left unchecked
NotAMember_Unchecked(project, assignee_id) == FALSE
\* the test inverted
NotAMember_Inverted(project, assignee_id) == InList(assignee_id, project.members)
\* `assignee_id not in project["members"]`
NotAMember(project, assignee_id) == ~InList(assignee_id, project.members)

assign_task(current_user, task_id, assignee_id) ==
    LET access == TaskAccess(task_id, current_user.id)
        task == Lookup(tasks_file.data, task_id)
        project == Lookup(projects_file.data, task.project_id)
    IN IF access = "JSONDecodeError" THEN Failed(Unhandled("JSONDecodeError"))
       ELSE IF access = "not found"
       THEN Failed(HTTPException(404, "Task not found"))
       ELSE IF access = "access denied"
       THEN Failed(HTTPException(403, "Access denied"))
       ELSE IF NotAMember(project, assignee_id)
       THEN Failed(HTTPException(400, "Assignee must be a project member"))
       ELSE StoreTask(task_id, SetKey(task, "assignee_id", assignee_id))

\* the list one value short
valid_statuses_Short == <<"todo", "in_progress">>
valid_statuses == <<"todo", "in_progress", "done">>

\* The parameter `status: str` of update_task_status hides the module
\* fastapi.status in the whole function: building any of its three
\* HTTPExceptions evaluates status.HTTP_... on a str, which raises
\* AttributeError before the HTTPException exists.
StatusHTTPException(code, detail) == Unhandled("AttributeError")

update_task_status(current_user, task_id, status) ==
    LET access == TaskAccess(task_id, current_user.id)
        task == Lookup(tasks_file.data, task_id)
    IN IF access = "JSONDecodeError" THEN Failed(Unhandled("JSONDecodeError"))
       ELSE IF access = "not found"
       THEN Failed(StatusHTTPException(404, "Task not found"))
       ELSE IF access = "access denied"
       THEN Failed(StatusHTTPException(403, "Access denied"))
       ELSE IF ~InList(status, valid_statuses)
       THEN Failed(StatusHTTPException(400, "Status must be one of valid_statuses"))
       ELSE StoreTask(task_id, SetKey(task, "status", status))

\* the status put back to "todo" as well
UpdatedTask_ResetStatus(task, task_data) ==
    Merge(task, [title |-> task_data.title,
                 description |-> task_data.description, status |-> "todo"])
\* {**task, "title": ..., "description": ...}: the body's project_id is unused
UpdatedTask(task, task_data) ==
    Merge(task, [title |-> task_data.title,
                 description |-> task_data.description])

update_task(current_user, task_id, task_data) ==
    LET access == TaskAccess(task_id, current_user.id)
        task == Lookup(tasks_file.data, task_id)
    IN IF access = "JSONDecodeError" THEN Failed(Unhandled("JSONDecodeError"))
       ELSE IF access = "not found"
       THEN Failed(HTTPException(404, "Task not found"))
       ELSE IF access = "access denied"
       THEN Failed(HTTPException(403, "Access denied"))
       ELSE StoreTask(task_id, UpdatedTask(task, task_data))

---------------------------------------------------------------------------
(* POST /token *)

\* the passwords a login can carry: the registered ones and one other
LoginPasswords == Passwords \cup {"other"}

\* auth.get_current_user: the users whose email is the token's subject
get_current_user(token) == { u \in CurrentUsers : u.email = token.sub }

\* the password check skipped
PasswordRejected_Never(password_verified) == FALSE
\* `if not password_verified`
PasswordRejected(password_verified) == ~password_verified

login(username, password) ==
    LET users == users_file.data
        found == { i \in 1..Len(users) : users[i].email = username }
    IN IF ~Readable(users_file) THEN [response |-> Unhandled("JSONDecodeError")]
       ELSE IF found = {}
       THEN [response |-> HTTPException(401, "Incorrect email or password")]
       ELSE LET user == users[CHOOSE i \in found : \A j \in found : i <= j]
                password_verified ==
                    verify_password(password, user.hashed_password)
            IN IF PasswordRejected(password_verified)
               THEN [response |-> HTTPException(401, "Incorrect email or password")]
               ELSE [response |->
                       Ok([access_token |-> create_access_token([sub |-> user.email]),
                           token_type |-> "bearer"])]

---------------------------------------------------------------------------
(* One request is one step *)

Answered(op, response) ==
    /\ last' = [op |-> op, code |-> response.code, detail |-> response.detail]
    /\ UNCHANGED <<calls, ncalls, file_empty>>

\* a TaskCreate body: title, description and project_id
TaskBodies ==
    { [title |-> t.title, description |-> t.description, project_id |-> p] :
        t \in TaskInputs, p \in ProjectIdInputs }

Register ==
    \E email \in Emails, name \in Names, password \in Passwords :
        LET r == register(email, name, password)
        IN /\ Len(r.users_file.data) <= MaxUsers
           /\ users_file' = r.users_file
           /\ Answered("register", r.response)
           /\ UNCHANGED <<projects_file, tasks_file>>

CreateProject ==
    \E current_user \in CurrentUsers, project \in ProjectInputs :
        LET r == create_project(current_user, project)
        IN /\ projects_file' = r.projects_file
           /\ Answered("create_project", r.response)
           /\ UNCHANGED <<users_file, tasks_file>>

GetProjects ==
    \E current_user \in CurrentUsers :
        /\ Answered("get_projects", get_projects(current_user).response)
        /\ UNCHANGED <<users_file, projects_file, tasks_file>>

UpdateProject ==
    \E current_user \in CurrentUsers, project_id \in ProjectIdInputs,
       project_data \in ProjectInputs :
        LET r == update_project(current_user, project_id, project_data)
        IN /\ projects_file' = r.projects_file
           /\ Answered("update_project", r.response)
           /\ UNCHANGED <<users_file, tasks_file>>

CreateTask ==
    \E current_user \in CurrentUsers, task \in TaskBodies :
        LET r == create_task(current_user, task)
        IN /\ tasks_file' = r.tasks_file
           /\ Answered("create_task", r.response)
           /\ UNCHANGED <<users_file, projects_file>>

Login ==
    \E username \in Emails, password \in LoginPasswords :
        /\ Answered("login", login(username, password).response)
        /\ UNCHANGED <<users_file, projects_file, tasks_file>>

GetTasks ==
    \E current_user \in CurrentUsers :
        /\ Answered("get_tasks", get_tasks(current_user).response)
        /\ UNCHANGED <<users_file, projects_file, tasks_file>>

AssignTask ==
    \E current_user \in CurrentUsers, task_id \in TaskIdInputs,
       assignee_id \in UserIdInputs :
        LET r == assign_task(current_user, task_id, assignee_id)
        IN /\ tasks_file' = r.tasks_file
           /\ Answered("assign_task", r.response)
           /\ UNCHANGED <<users_file, projects_file>>

UpdateTaskStatus ==
    \E current_user \in CurrentUsers, task_id \in TaskIdInputs,
       status \in StatusInputs :
        LET r == update_task_status(current_user, task_id, status)
        IN /\ tasks_file' = r.tasks_file
           /\ Answered("update_task_status", r.response)
           /\ UNCHANGED <<users_file, projects_file>>

UpdateTask ==
    \E current_user \in CurrentUsers, task_id \in TaskIdInputs,
       task_data \in TaskBodies :
        LET r == update_task(current_user, task_id, task_data)
        IN /\ tasks_file' = r.tasks_file
           /\ Answered("update_task", r.response)
           /\ UNCHANGED <<users_file, projects_file>>

Next ==
    \/ Register
    \/ Login
    \/ CreateProject
    \/ GetProjects
    \/ UpdateProject
    \/ CreateTask
    \/ GetTasks
    \/ AssignTask
    \/ UpdateTaskStatus
    \/ UpdateTask

Spec == Init /\ [][Next]_vars

---------------------------------------------------------------------------
(* storage.py on its own: JSONStorage takes no lock, so the calls of two   *)
(* workers on one data directory interleave at the file operations.  A     *)
(* call is followed through get_tasks (open "r" and json.load), the change *)
(* of the list in memory, open(path, "w"), which truncates the file, and   *)
(* the end of the `with` block, which flushes the text of json.dump from   *)
(* offset 0.  calls[c] is the call of worker c: its position, arguments,   *)
(* the list it read, its changed copy and what it returned; file_empty     *)
(* says the file has been truncated and not written since; ncalls counts   *)
(* the calls made.  The collection is tasks.json.                          *)

\* the record of the n-th call of save_task, its id a fresh one
StoreTaskInput(n) == SeedTask(uuid4(DataDirTasks) + n, 1)

\* the task_data of update_task
StorePatches == { [status |-> "done"], [title |-> "t2"] }

\* the ids update_task is called with: those of the records, and 0, which
\* no record has
StoreIdInputs == Ids(tasks_file.data) \cup {0}

StoreCalls ==
    {[op |-> "get_tasks", id |-> 0, data |-> [none |-> "none"]]}
    \cup {[op |-> "save_task", id |-> 0, data |-> StoreTaskInput(ncalls)]}
    \cup { [op |-> "update_task", id |-> id, data |-> data] :
              id \in StoreIdInputs, data \in StorePatches }

\* tasks.append(task), or the loop of update_task, left out
Changed_Nothing(call, tasks) == tasks
\* tasks.append(task), or the loop of update_task, on the list read
Changed(call, tasks) ==
    IF call.op = "save_task" THEN Append(tasks, call.data)
    ELSE UpdatedList(tasks, call.id, call.data)

\* open(path, "w"): the file is cut to no text at all
Truncated == [ok |-> FALSE, data |-> <<>>]

\* the text flushed from offset 0 over text another call flushed since the
\* truncation: the file is the new text, followed by what is left of the
\* older one where that was the longer
Overwritten(written) == {written, [ok |-> FALSE, data |-> <<>>]}

Returned(c, result) ==
    calls' = [calls EXCEPT ![c].pc = "done", ![c].result = result]

StoreCall(c) ==
    /\ calls[c].pc \in {"idle", "done"}
    /\ ncalls < MaxCalls
    /\ \E call \in StoreCalls :
          calls' = [calls EXCEPT ![c] =
                      [pc |-> "called", op |-> call.op, id |-> call.id,
                       data |-> call.data, read |-> <<>>, copy |-> <<>>,
                       result |-> "none"]]
    /\ ncalls' = ncalls + 1
    /\ UNCHANGED <<tasks_file, file_empty, users_file, projects_file, last>>

\* _read_file
StoreRead(c) ==
    /\ calls[c].pc = "called"
    /\ IF ~Readable(tasks_file) THEN Returned(c, "JSONDecodeError")
       ELSE IF calls[c].op = "get_tasks"
       THEN calls' = [calls EXCEPT ![c].pc = "done", ![c].result = "ok",
                                   ![c].read = tasks_file.data]
       ELSE calls' = [calls EXCEPT ![c].pc = "read",
                                   ![c].read = tasks_file.data,
                                   ![c].copy = Changed(calls[c], tasks_file.data)]
    /\ UNCHANGED <<tasks_file, ncalls, file_empty,
                   users_file, projects_file, last>>

\* _write_file: open(file_path, "w")
StoreOpen(c) ==
    /\ calls[c].pc = "read"
    /\ tasks_file' = Truncated
    /\ file_empty' = TRUE
    /\ calls' = [calls EXCEPT ![c].pc = "opened"]
    /\ UNCHANGED <<ncalls, users_file, projects_file, last>>

\* _write_file: json.dump and the end of the `with` block
StoreClose(c) ==
    /\ calls[c].pc = "opened"
    /\ LET written == _write_file(calls[c].copy)
       IN /\ tasks_file' \in (IF file_empty THEN {written}
                                ELSE Overwritten(written))
          /\ Returned(c, IF written.ok THEN "ok" ELSE "TypeError")
    /\ file_empty' = FALSE
    /\ UNCHANGED <<ncalls, users_file, projects_file, last>>

InitStore ==
    /\ users_file = File(<<>>)
    /\ projects_file = File(<<>>)
    /\ tasks_file \in {File(<<>>), File(DataDirTasks)}
    /\ last = [op |-> "none", code |-> 0, detail |-> "none"]
    /\ calls = [c \in Clients |-> Idle]
    /\ ncalls = 0
    /\ file_empty = FALSE

NextStore ==
    \/ \E c \in Clients : StoreCall(c)
    \/ \E c \in Clients : StoreRead(c)
    \/ \E c \in Clients : StoreOpen(c)
    \/ \E c \in Clients : StoreClose(c)

SpecStore == InitStore /\ [][NextStore]_vars

---------------------------------------------------------------------------
(* The vocabulary of the properties: the persisted collections, and the    *)
(* failure kinds of the API by status and detail.                          *)

Users == users_file.data
Projects == projects_file.data
Tasks == tasks_file.data

ProjectExists(project_id) ==
    \E i \in 1..Len(Projects) : Projects[i].id = project_id
\* is_member(project, user)
MemberOf(user_id, project_id) ==
    \E i \in 1..Len(Projects) :
        /\ Projects[i].id = project_id
        /\ \E k \in 1..Len(Projects[i].members) : Projects[i].members[k] = user_id
TaskExists(task_id) == \E i \in 1..Len(Tasks) : Tasks[i].id = task_id
TaskOf(task_id) == CHOOSE t \in {Tasks[i] : i \in 1..Len(Tasks)} : t.id = task_id

Succeeded(r) == r.code = 200
DuplicateEmail(r) == r.code = 400 /\ r.detail = "Email already registered"
NotFound(r) == r.code = 404
AccessDenied(r) == r.code = 403 /\ r.detail = "Access denied"
InvalidAssignee(r) == r.code = 400 /\ r.detail = "Assignee must be a project member"
InvalidStatus(r) == r.code = 400 /\ r.detail = "Status must be one of valid_statuses"

\* `longer` is `shorter` with exactly one record appended
AppendsOne(shorter, longer) ==
    /\ Len(longer) = Len(shorter) + 1
    /\ SubSeq(longer, 1, Len(shorter)) = shorter

---------------------------------------------------------------------------
(* C1: the users collection holds at most one record per email; register   *)
(* with the email of a persisted user fails with DuplicateEmail and leaves *)
(* the users collection as it was; register with a new email appends       *)
(* exactly one user record, with that email.                               *)
C1_OneUserPerEmail ==
    /\ \A i, j \in 1..Len(Users) : Users[i].email = Users[j].email => i = j
    /\ \A email \in Emails, name \in Names, password \in Passwords :
         LET r == register(email, name, password)
         IN IF \E i \in 1..Len(Users) : Users[i].email = email
            THEN DuplicateEmail(r.response) /\ r.users_file = users_file
            ELSE /\ Succeeded(r.response)
                 /\ r.users_file.ok
                 /\ AppendsOne(Users, r.users_file.data)
                 /\ r.users_file.data[Len(Users) + 1].email = email

\* a second registration of an email was refused after a first one succeeded
C1_Witness ==
    /\ last.op = "register"
    /\ DuplicateEmail(last)
    /\ \E i \in 1..Len(Users) : Users[i].created_at = StrTime("now")

---------------------------------------------------------------------------
(* C2: createProject by any authenticated user succeeds: it returns a      *)
(* Project and appends exactly one record to the projects collection, with *)
(* owner_id the caller's id and members [owner_id]; the projects persisted *)
(* before, the users and the tasks are unchanged and the projects          *)
(* collection stays readable.                                              *)
C2_CreateProjectSucceeds ==
    [][ last'.op = "create_project" =>
          /\ Succeeded(last')
          /\ projects_file'.ok
          /\ AppendsOne(Projects, projects_file'.data)
          /\ LET created == projects_file'.data[Len(Projects) + 1]
             IN /\ \E i \in 1..Len(Users) : Users[i].id = created.owner_id
                /\ created.members = <<created.owner_id>>
          /\ users_file' = users_file
          /\ tasks_file' = tasks_file ]_vars

---------------------------------------------------------------------------
(* C3: in every reachable state every persisted project has its owner_id   *)
(* among its members.                                                      *)
C3_OwnerIsMember ==
    \A i \in 1..Len(Projects) :
        \E k \in 1..Len(Projects[i].members) :
            Projects[i].members[k] = Projects[i].owner_id

\* the owner has edited a project, which is persisted with the new name
C3_Witness ==
    /\ last.op = "update_project"
    /\ Succeeded(last)
    /\ \E i \in 1..Len(Projects) :
          /\ Projects[i].name = "p2"
          /\ MemberOf(Projects[i].owner_id, Projects[i].id)

---------------------------------------------------------------------------
(* C4: createTask by a user who is not a member of an existing project     *)
(* fails with NotFound, with the very response an absent project gets, and *)
(* leaves the tasks collection unchanged.                                  *)
C4_NonMemberCreateTaskNotFound ==
    \A current_user \in CurrentUsers, task \in TaskBodies :
        (ProjectExists(task.project_id)
           /\ ~MemberOf(current_user.id, task.project_id))
        => LET r == create_task(current_user, task)
               absent == [task EXCEPT !.project_id = uuid4(Projects)]
           IN /\ NotFound(r.response)
              /\ ~ProjectExists(absent.project_id)
              /\ r.response = create_task(current_user, absent).response
              /\ r.tasks_file = tasks_file

\* createTask was answered 404 where a registered user is no member of a
\* persisted project, and the tasks are still there
C4_Witness ==
    /\ last.op = "create_task"
    /\ NotFound(last)
    /\ \E u \in CurrentUsers, i \in 1..Len(Projects) :
          ~MemberOf(u.id, Projects[i].id)
    /\ Len(Tasks) = 2

---------------------------------------------------------------------------
(* C5: createTask by a member of an existing project succeeds: it returns  *)
(* a Task and appends exactly one record to the tasks collection, with the *)
(* given project_id, status todo and no assignee; the tasks persisted      *)
(* before are unchanged and the tasks collection stays readable.           *)
C5_MemberCreateTaskSucceeds ==
    [][ \A current_user \in CurrentUsers, task \in TaskBodies :
          ( /\ MemberOf(current_user.id, task.project_id)
            /\ last'.op = "create_task"
            /\ last'.code = create_task(current_user, task).response.code
            /\ tasks_file' = create_task(current_user, task).tasks_file )
          => /\ Succeeded(last')
             /\ tasks_file'.ok
             /\ AppendsOne(Tasks, tasks_file'.data)
             /\ LET created == tasks_file'.data[Len(Tasks) + 1]
                IN /\ created.project_id = task.project_id
                   /\ created.status = "todo"
                   /\ "assignee_id" \notin DOMAIN created ]_vars

---------------------------------------------------------------------------
(* The step just taken is the request `op` with the result r of a handler  *)
(* on the tasks or on the projects.                                        *)
TaskStep(op, r) ==
    /\ last'.op = op
    /\ last'.code = r.response.code
    /\ last'.detail = r.response.detail
    /\ tasks_file' = r.tasks_file
ProjectStep(op, r) ==
    /\ last'.op = op
    /\ last'.code = r.response.code
    /\ last'.detail = r.response.detail
    /\ projects_file' = r.projects_file

\* the caller may act on the task: it exists and the caller is a member of
\* its project
MemberOfTaskProject(user_id, task_id) ==
    /\ TaskExists(task_id)
    /\ MemberOf(user_id, TaskOf(task_id).project_id)

---------------------------------------------------------------------------
(* C6: assignTask by a project member with an assignee id that is not in   *)
(* the members of the task's project fails with InvalidAssignee, and every *)
(* field of every persisted task is the same after the call as before.     *)
C6_NonMemberAssigneeRefused ==
    \A current_user \in CurrentUsers, task_id \in TaskIdInputs,
       assignee_id \in UserIdInputs :
        (MemberOfTaskProject(current_user.id, task_id)
           /\ ~MemberOf(assignee_id, TaskOf(task_id).project_id))
        => LET r == assign_task(current_user, task_id, assignee_id)
           IN /\ InvalidAssignee(r.response)
              /\ r.tasks_file = tasks_file

\* an assignment was refused for its assignee, and both tasks are persisted
C6_Witness ==
    /\ last.op = "assign_task"
    /\ InvalidAssignee(last)
    /\ Len(Tasks) = 2

---------------------------------------------------------------------------
(* C7: setTaskStatus by a project member on an existing task with a value  *)
(* outside {todo, in_progress, done} fails with InvalidStatus, and the     *)
(* persisted task is unchanged.                                            *)
C7_InvalidStatusRefused ==
    [][ \A current_user \in CurrentUsers, task_id \in TaskIdInputs,
           status \in StatusInputs \ {"todo", "in_progress", "done"} :
          ( /\ MemberOfTaskProject(current_user.id, task_id)
            /\ TaskStep("update_task_status",
                        update_task_status(current_user, task_id, status)) )
          => /\ InvalidStatus(last')
             /\ tasks_file' = tasks_file ]_vars

---------------------------------------------------------------------------
(* C8: for every pair (s, s2) of the three status values, s = s2 included, *)
(* setTaskStatus(s2) by a project member on a task whose status is s       *)
(* succeeds and the persisted task's status is s2 afterwards; every        *)
(* persisted task's status is one of the three values.                     *)
C8_AnyStatusTransition ==
    /\ \A i \in 1..Len(Tasks) : Tasks[i].status \in {"todo", "in_progress", "done"}
    /\ \A current_user \in CurrentUsers, task_id \in TaskIdInputs,
          status \in {"todo", "in_progress", "done"} :
         MemberOfTaskProject(current_user.id, task_id)
         => LET r == update_task_status(current_user, task_id, status)
            IN /\ Succeeded(r.response)
               /\ r.tasks_file.ok
               /\ Len(r.tasks_file.data) = Len(Tasks)
               /\ \A i \in 1..Len(Tasks) :
                     Tasks[i].id = task_id => r.tasks_file.data[i].status = status

\* a status was set, and the tasks have gone from todo to in_progress and done
C8_Witness ==
    /\ last.op = "update_task_status"
    /\ Succeeded(last)
    /\ \E i, j \in 1..Len(Tasks) :
          Tasks[i].status = "done" /\ Tasks[j].status = "in_progress"

---------------------------------------------------------------------------
(* C9: assignTask, setTaskStatus and updateTask each fail with NotFound    *)
(* when no task has the given id and with AccessDenied when the task       *)
(* exists but the caller is not a member of its project, whatever the      *)
(* assignee or status given; the tasks collection is unchanged.  Stated of *)
(* a store whose files are readable.                                       *)
C9_Expected(task_id) ==
    IF ~TaskExists(task_id) THEN NotFound(last') ELSE AccessDenied(last')
C9_TaskNotFoundOrAccessDenied ==
    [][ \A current_user \in CurrentUsers, task_id \in TaskIdInputs :
          ( /\ Readable(tasks_file)
            /\ Readable(projects_file)
            /\ ~MemberOfTaskProject(current_user.id, task_id)
            /\ \/ \E assignee_id \in UserIdInputs :
                     TaskStep("assign_task",
                              assign_task(current_user, task_id, assignee_id))
               \/ \E status \in StatusInputs :
                     TaskStep("update_task_status",
                              update_task_status(current_user, task_id, status))
               \/ \E task_data \in TaskBodies :
                     TaskStep("update_task",
                              update_task(current_user, task_id, task_data)) )
          => /\ C9_Expected(task_id)
             /\ tasks_file' = tasks_file ]_vars

---------------------------------------------------------------------------
(* C10: a successful updateProject by the owner changes only the name and  *)
(* the description of the addressed project, to the given values: its id,  *)
(* owner_id, members and created_at, every other project record, the order *)
(* of the projects, the users and the tasks are unchanged.                 *)
C10_UpdateProjectFrame ==
    [][ (last'.op = "update_project" /\ Succeeded(last')) =>
          /\ users_file' = users_file
          /\ tasks_file' = tasks_file
          /\ projects_file'.ok
          /\ Len(projects_file'.data) = Len(Projects)
          /\ \A current_user \in CurrentUsers, project_id \in ProjectIdInputs,
                project_data \in ProjectInputs :
               ( /\ \E i \in 1..Len(Projects) :
                       /\ Projects[i].id = project_id
                       /\ Projects[i].owner_id = current_user.id
                 /\ ProjectStep("update_project",
                        update_project(current_user, project_id, project_data)) )
               => \A i \in 1..Len(Projects) :
                     projects_file'.data[i] =
                         IF Projects[i].id = project_id
                         THEN [Projects[i] EXCEPT
                                  !.name = project_data.name,
                                  !.description = project_data.description]
                         ELSE Projects[i] ]_vars

\* an owner's edit was persisted: one project renamed, the other as it was
C10_Witness ==
    /\ last.op = "update_project"
    /\ Succeeded(last)
    /\ \E i, j \in 1..Len(Projects) :
          /\ Projects[i].name = "p2" /\ Projects[i].description = "d"
          /\ Projects[j].name = "p1" /\ Projects[j].description = "null"

---------------------------------------------------------------------------
(* C11: updateProject fails with NotFound when no project has the given    *)
(* id, and with OwnerOnly when the project exists but the caller is not    *)
(* its owner, even a caller who is among its members; the projects         *)
(* collection is unchanged in both cases.  Stated of a readable store.     *)
OwnerOnly(r) ==
    r.code = 403 /\ r.detail = "Only project owner can edit the project"
OwnerOf(project_id) ==
    (CHOOSE p \in {Projects[i] : i \in 1..Len(Projects)} : p.id = project_id).owner_id
C11_UpdateProjectNotFoundOrOwnerOnly ==
    \A current_user \in CurrentUsers, project_id \in ProjectIdInputs,
       project_data \in ProjectInputs :
        LET r == update_project(current_user, project_id, project_data)
        IN Readable(projects_file) =>
             /\ ~ProjectExists(project_id)
                => NotFound(r.response) /\ r.projects_file = projects_file
             /\ (ProjectExists(project_id)
                   /\ OwnerOf(project_id) # current_user.id)
                => OwnerOnly(r.response) /\ r.projects_file = projects_file

\* an edit was refused as not the owner's where a registered user is a
\* member of a project another user owns
C11_Witness ==
    /\ last.op = "update_project"
    /\ OwnerOnly(last)
    /\ \E u \in CurrentUsers, i \in 1..Len(Projects) :
          MemberOf(u.id, Projects[i].id) /\ Projects[i].owner_id # u.id

---------------------------------------------------------------------------
(* C12: in every reachable state every persisted task whose assignee_id is *)
(* set has that assignee among the members of the project its project_id   *)
(* names.                                                                  *)
C12_AssigneeIsMember ==
    \A i \in 1..Len(Tasks) :
        "assignee_id" \in DOMAIN Tasks[i] =>
            \A j \in 1..Len(Projects) :
                Projects[j].id = Tasks[i].project_id =>
                    \E k \in 1..Len(Projects[j].members) :
                        Projects[j].members[k] = Tasks[i].assignee_id

\* a task was assigned, and its assignee is a member of its project
C12_Witness ==
    /\ last.op = "assign_task"
    /\ Succeeded(last)
    /\ \E i \in 1..Len(Tasks) :
          /\ "assignee_id" \in DOMAIN Tasks[i]
          /\ MemberOf(Tasks[i].assignee_id, Tasks[i].project_id)

---------------------------------------------------------------------------
(* C13: listProjects returns exactly the persisted projects whose members  *)
(* contain the caller, and listTasks exactly the persisted tasks of those  *)
(* projects, each once and in the persisted order; nothing of a project    *)
(* the caller is no member of is returned.  Stated of a readable store.    *)
IsSubSeqBy(body, data, keep(_)) ==
    /\ Len(body) = Cardinality({i \in 1..Len(data) : keep(data[i])})
    /\ \A i \in 1..Len(body) : keep(body[i])
    /\ \A i \in 1..Len(data) : keep(data[i]) => \E k \in 1..Len(body) : body[k] = data[i]
    /\ \A k, m \in 1..Len(body) :
          k < m => \E i, j \in 1..Len(data) :
                      i < j /\ data[i] = body[k] /\ data[j] = body[m]
C13_ListsFilteredByMembership ==
    \A current_user \in CurrentUsers :
        /\ Readable(projects_file) =>
             LET r == get_projects(current_user).response
             IN /\ Succeeded(r)
                /\ IsSubSeqBy(r.body, Projects,
                              LAMBDA p : MemberOf(current_user.id, p.id))
        /\ (Readable(projects_file) /\ Readable(tasks_file)) =>
             LET r == get_tasks(current_user).response
             IN /\ Succeeded(r)
                /\ IsSubSeqBy(r.body, Tasks,
                              LAMBDA t : MemberOf(current_user.id, t.project_id))

\* tasks were listed where a registered user is outside the project of a
\* persisted task and a member of the project of another
C13_Witness ==
    /\ last.op = "get_tasks"
    /\ Succeeded(last)
    /\ \E u \in CurrentUsers, i, j \in 1..Len(Tasks) :
          /\ ~MemberOf(u.id, Tasks[i].project_id)
          /\ MemberOf(u.id, Tasks[j].project_id)

---------------------------------------------------------------------------
(* C14: for every registered user U, login with U's email and the password *)
(* U registered with succeeds and yields a token whose subject is U's      *)
(* email, so that currentUser resolves to U; login with U's email and any  *)
(* other password, or with an email of no persisted user, fails with       *)
(* InvalidCredentials; login never changes any collection.                 *)
InvalidCredentials(r) ==
    r.code = 401 /\ r.detail = "Incorrect email or password"
Registered == { Users[i] : i \in 1..Len(Users) }
RegisteredWith(user, password) ==
    user.hashed_password = get_password_hash(password)
C14_LoginAnswers ==
    /\ \A U \in Registered, password \in LoginPasswords :
          LET r == login(U.email, password).response
          IN IF RegisteredWith(U, password)
             THEN /\ Succeeded(r)
                  /\ r.body.access_token.sub = U.email
                  /\ r.body.token_type = "bearer"
                  /\ get_current_user(r.body.access_token) = {U}
             ELSE InvalidCredentials(r)
    /\ \A email \in Emails, password \in LoginPasswords :
          (\A U \in Registered : U.email # email)
              => InvalidCredentials(login(email, password).response)
C14_Login ==
    /\ []C14_LoginAnswers
    /\ [][last'.op = "login"
            => UNCHANGED <<users_file, projects_file, tasks_file>>]_vars

\* a registered user has logged in
C14_Witness ==
    /\ last.op = "login"
    /\ Succeeded(last)
    /\ \E U \in Registered : \E password \in Passwords : RegisteredWith(U, password)

---------------------------------------------------------------------------
(* The vocabulary of the properties of the store on its own *)

Writes == {"save_task", "update_task"}
Reads(c) == calls[c].pc = "called" /\ calls'[c].pc # "called"
Closes(c) == calls[c].pc = "opened" /\ calls'[c].pc = "done"
Finished(c, op) == calls[c].pc = "done" /\ calls[c].op = op
Holds(list, id) == \E i \in 1..Len(list) : list[i].id = id

\* the list with the call's record added, or with the call's data put
\* over the first record of the call's id
WithChange(call, list) ==
    IF call.op = "save_task" THEN list \o <<call.data>>
    ELSE [i \in 1..Len(list) |->
            IF list[i].id = call.id /\ \A j \in 1..(i - 1) : list[j].id # call.id
            THEN [k \in (DOMAIN list[i]) \cup (DOMAIN call.data) |->
                    IF k \in DOMAIN call.data THEN call.data[k] ELSE list[i][k]]
            ELSE list[i]]

\* the call's record, or the call's data on a record of its id, is in the list
ChangeIn(call, list) ==
    IF call.op = "save_task" THEN \E i \in 1..Len(list) : list[i] = call.data
    ELSE \E i \in 1..Len(list) :
            /\ list[i].id = call.id
            /\ \A k \in DOMAIN call.data : k \in DOMAIN list[i] /\ list[i][k] = call.data[k]

---------------------------------------------------------------------------
(* C15: the store's update, when no record of the collection has the given *)
(* id, raises no error and persists the collection it read, the same       *)
(* records in the same order: the list in memory after the loop is the     *)
(* list read, the call returns normally, and the file it wrote holds that  *)
(* list (the write not landing on text another call flushed meanwhile).    *)
C15_UnknownIdUpdateIsNoOp ==
    [][ \A c \in Clients :
          /\ (calls[c].op = "update_task" /\ Reads(c) /\ Readable(tasks_file)
                /\ ~Holds(tasks_file.data, calls[c].id))
             => calls'[c].copy = tasks_file.data
          /\ (calls[c].op = "update_task" /\ Closes(c)
                /\ ~Holds(calls[c].read, calls[c].id))
             => /\ calls'[c].result = "ok"
                /\ file_empty
                     => tasks_file' = [ok |-> TRUE, data |-> calls[c].read]
      ]_vars

\* an update of an id no record has has returned, and the file holds the
\* records it read
C15_Witness ==
    \E c \in Clients :
        /\ Finished(c, "update_task")
        /\ calls[c].result = "ok"
        /\ calls[c].read # <<>>
        /\ ~Holds(calls[c].read, calls[c].id)
        /\ tasks_file = [ok |-> TRUE, data |-> calls[c].read]

---------------------------------------------------------------------------
(* C16: while an append or update is persisting the collection, a          *)
(* concurrent list returns the complete collection as it was before or as  *)
(* it is after the write, never an empty, truncated or partly written one: *)
(* every list that has returned has returned a list, and a list returns    *)
(* the records of a complete file.                                         *)
C16_ListSeesCompleteCollection ==
    \A c \in Clients :
        Finished(c, "get_tasks") => calls[c].result = "ok"

---------------------------------------------------------------------------
(* C18: two writes on one collection that interleave at the read and write *)
(* steps can lose an update, because each call reads the whole collection, *)
(* changes its own copy and writes the whole collection back: whatever the *)
(* file holds when a call writes, afterwards it holds the list that call   *)
(* read, with that call's change and no other.                             *)
C18_WritesBackOwnCopy ==
    [][ \A c \in Clients :
          (Closes(c) /\ file_empty /\ calls'[c].result = "ok")
            => tasks_file' = [ok |-> TRUE,
                              data |-> WithChange(calls[c], calls[c].read)]
      ]_vars

\* both calls have returned without error, both read the same collection,
\* and the file holds the change of one and not the change of the other
C18_Witness ==
    \E a, b \in Clients :
        /\ a # b
        /\ calls[a].pc = "done" /\ calls[a].op \in Writes /\ calls[a].result = "ok"
        /\ calls[b].pc = "done" /\ calls[b].op \in Writes /\ calls[b].result = "ok"
        /\ calls[a].read = calls[b].read
        /\ ChangeIn(calls[a], calls[a].copy)
        /\ tasks_file.ok
        /\ ChangeIn(calls[b], tasks_file.data)
        /\ ~ChangeIn(calls[a], tasks_file.data)

---------------------------------------------------------------------------
(* C17: if the persist step of a store append or update fails (the write   *)
(* raises part-way, for example because a record cannot be serialized),    *)
(* the record is not committed: a following list of that collection        *)
(* succeeds and returns exactly the records persisted before the failed    *)
(* call.  Stated of createProject and createTask on a readable collection. *)
WriteFailed(r) == r.code = 500 /\ r.detail = "TypeError"
C17_FailedPersistNotCommitted ==
    \A current_user \in CurrentUsers :
        /\ \A project \in ProjectInputs :
              LET r == create_project(current_user, project)
              IN (Readable(projects_file) /\ WriteFailed(r.response))
                   => /\ r.projects_file.ok
                      /\ r.projects_file.data = Projects
        /\ \A task \in TaskBodies :
              LET r == create_task(current_user, task)
              IN (Readable(tasks_file) /\ WriteFailed(r.response))
                   => /\ r.tasks_file.ok
                      /\ r.tasks_file.data = Tasks

---------------------------------------------------------------------------
(* C19: status, assignee and title/description of a task mutate            *)
(* independently: a successful assignTask changes only assignee_id of the  *)
(* addressed task, a successful setTaskStatus only its status, a           *)
(* successful updateTask only its title and description; every other field *)
(* of that task, every other task and the order of the tasks collection    *)
(* are unchanged.                                                          *)
OnlyFieldsChanged(r, task_id, fields) ==
    /\ r.tasks_file.ok
    /\ Len(r.tasks_file.data) = Len(Tasks)
    /\ \A i \in 1..Len(Tasks) :
          LET before == Tasks[i]
              after == r.tasks_file.data[i]
          IN IF before.id = task_id
             THEN /\ DOMAIN before \subseteq DOMAIN after
                  /\ DOMAIN after \subseteq (DOMAIN before) \cup fields
                  /\ \A k \in (DOMAIN before) \ fields : after[k] = before[k]
             ELSE after = before
Stored(r, task_id) ==
    CHOOSE t \in {r.tasks_file.data[i] : i \in 1..Len(r.tasks_file.data)} :
        t.id = task_id
C19_TaskFieldsIndependent ==
    \A current_user \in CurrentUsers, task_id \in TaskIdInputs :
        /\ \A assignee_id \in UserIdInputs :
              LET r == assign_task(current_user, task_id, assignee_id)
              IN Succeeded(r.response)
                   => /\ OnlyFieldsChanged(r, task_id, {"assignee_id"})
                      /\ Stored(r, task_id).assignee_id = assignee_id
        /\ \A status \in StatusInputs :
              LET r == update_task_status(current_user, task_id, status)
              IN Succeeded(r.response)
                   => /\ OnlyFieldsChanged(r, task_id, {"status"})
                      /\ Stored(r, task_id).status = status
        /\ \A task_data \in TaskBodies :
              LET r == update_task(current_user, task_id, task_data)
              IN Succeeded(r.response)
                   => /\ OnlyFieldsChanged(r, task_id, {"title", "description"})
                      /\ Stored(r, task_id).title = task_data.title
                      /\ Stored(r, task_id).description
                            = task_data.description

\* a task carries an assignee, a status and a title each set by its own
\* operation, the latest of them an updateTask
C19_Witness ==
    /\ last.op = "update_task"
    /\ Succeeded(last)
    /\ \E i \in 1..Len(Tasks) :
          /\ "assignee_id" \in DOMAIN Tasks[i]
          /\ Tasks[i].status = "done"
          /\ Tasks[i].title = "t2"

---------------------------------------------------------------------------
(* C20: in every reachable state every persisted task's project_id names a *)
(* persisted project, and no operation changes the id or project_id of a   *)
(* persisted task: updateTask keeps the stored project_id even when the    *)
(* request body carries a different one.                                   *)
TaskReferencesPersisted ==
    \A i \in 1..Len(Tasks) : ProjectExists(Tasks[i].project_id)
TaskIdentityKept ==
    tasks_file'.ok =>
        /\ Len(tasks_file'.data) >= Len(Tasks)
        /\ \A i \in 1..Len(Tasks) :
              /\ tasks_file'.data[i].id = Tasks[i].id
              /\ tasks_file'.data[i].project_id = Tasks[i].project_id
C20_ProjectIdImmutableReference ==
    /\ []TaskReferencesPersisted
    /\ [][TaskIdentityKept]_vars

=============================================================================
